---- MODULE Spec2Model ----
(***************************************************************************)
(* The solar-to-hydrogen dashboard script, streamlit_app.py, as a state    *)
(* machine: one run of the script from its first line (Spec), the CSV load *)
(* section of lines 63-144 on its own (LoaderSpec), and that section run   *)
(* twice on the same folder (RerunSpec).                                   *)
(*                                                                         *)
(* A CSV file is text: every cell is a string, "" for an empty cell.       *)
(* A file name is the sequence of its parts, the month word among them;    *)
(* a column label is a word with its leading and trailing blanks counted.  *)
(* A cell of a data frame is Num(n), NaN or Str(s).                        *)
(***************************************************************************)
EXTENDS Integers, Sequences, FiniteSets, TLC

VARIABLES
    folder,           \* the names of the files in the working directory
    disk,             \* CSV file of the folder -> its header and its data lines,
                      \* the header by its name in Headers, a line by its place in Lines
    pc,               \* the section of the script that runs next
    bound,            \* the global names bound so far in this run
    csv_files,        \* line 66
    i,                \* position of the for loop of line 74 in csv_files
    all_months_data,  \* line 72: month -> list of row records
    reports,          \* what st.warning / st.error / st.info have shown
    widgets,          \* the widget keys registered in this run
    selected_month,   \* line 128
    current_data,     \* line 135
    metrics,          \* lines 141-144
    error,            \* the uncaught exception that ended the run, or "none"
    run,              \* 1 for the first run of the script, 2 for the rerun
    session,          \* the month Streamlit holds for the selector's key, or None
    quicksort,        \* what the sort has returned so far: rows -> rows in order
    previous          \* all_months_data as the previous run left it

vars == <<folder, disk, pc, bound, csv_files, i, all_months_data, reports,
          widgets, selected_month, current_data, metrics, error, run, session,
          quicksort, previous>>

\* The folder holds at most MaxRows data rows, all its files together.
MaxRows == 2

-----------------------------------------------------------------------------
(* Values *)

Range(s) == {s[k] : k \in DOMAIN s}

Num(n) == [t |-> "num", v |-> n, s |-> ""]
NaN == [t |-> "nan", v |-> 0, s |-> ""]
Str(x) == [t |-> "str", v |-> 0, s |-> x]

isna(c) == c.t = "nan"

\* The decimal strings of the enumerated files and the numbers they denote.
NumText ==
    ("0" :> 0) @@ ("1" :> 1) @@ ("2" :> 2) @@ ("3" :> 3) @@ ("5" :> 5) @@
    ("6" :> 6) @@ ("9" :> 9) @@ ("14" :> 14) @@ ("20" :> 20) @@ ("50" :> 50) @@
    ("80" :> 80) @@ ("100" :> 100)

None == "None"

MONTHS ==
    <<"January", "February", "March", "April", "May", "June", "July", "August",
      "September", "October", "November", "December">>

\* str.lower() on the parts that occur in file names and in MONTHS.
LowerPart ==
    ("January" :> "january") @@ ("February" :> "february") @@ ("March" :> "march") @@
    ("April" :> "april") @@ ("May" :> "may") @@ ("June" :> "june") @@
    ("July" :> "july") @@ ("August" :> "august") @@ ("September" :> "september") @@
    ("October" :> "october") @@ ("November" :> "november") @@
    ("December" :> "december") @@ (".CSV" :> ".csv")

lower(part) == IF part \in DOMAIN LowerPart THEN LowerPart[part] ELSE part

lower_name(file) == [k \in DOMAIN file |-> lower(file[k])]

\* f.lower().endswith(".csv")
IsCsv(file) == Len(file) > 0 /\ lower_name(file)[Len(file)] = ".csv"

required_cols ==
    <<"Day", "PV_Total_MWh", "PV_to_H2_kWh", "Batt_to_H2_kWh", "H2_Start_Hour",
      "H2_Stop_Hour", "H2_Produced_kg", "Final_SOC_pct", "Battery_Cycles_Daily">>

Label(w) == [lead |-> 0, word |-> w, trail |-> 0]
Padded(l, w, r) == [lead |-> l, word |-> w, trail |-> r]

-----------------------------------------------------------------------------
(* pandas, as the load loop uses it *)

Words(header) == {header[j].word : j \in DOMAIN header}

\* pd.read_csv raises EmptyDataError on a file that has no header line.
read_csv_raises(text) == Len(text.header) = 0

\* A column holding a cell that is neither empty nor a number is read as
\* strings (dtype object): all its cells that are not empty are strings then.
is_object(text, w) ==
    \E k \in DOMAIN text.lines : text.lines[k][w] \notin (DOMAIN NumText \cup {""})

parse_cell(text, w, k) ==
    LET c == text.lines[k][w]
    IN  IF c = "" THEN NaN
        ELSE IF is_object(text, w) THEN Str(c)
        ELSE Num(NumText[c])

\* line 76. The frame: its column labels as written in the file, and its rows.
read_csv(text) ==
    [columns |-> text.header,
     rows |-> [k \in DOMAIN text.lines |->
                  [w \in Words(text.header) |-> parse_cell(text, w, k)]]]

strip(label) == [label EXCEPT !.lead = 0, !.trail = 0]

\* line 77: df.columns = df.columns.str.strip()
strip_columns(df) ==
    [df EXCEPT !.columns = [j \in DOMAIN df.columns |-> strip(df.columns[j])]]

\* col in df.columns
has_column(df, col) == Label(col) \in Range(df.columns)

\* lines 80-85: the first month of MONTHS whose lower-case name is in the
\* lower-case file name; None when there is none.
detect_month(file) ==
    LET filename == lower_name(file)
        hits == {m \in DOMAIN MONTHS : lower(MONTHS[m]) \in Range(filename)}
    IN  IF hits = {} THEN None
        ELSE MONTHS[CHOOSE m \in hits : \A n \in hits : m <= n]

\* line 95 stopping at the first absent column
missing_first_only(df) ==
    LET all == SelectSeq(required_cols, LAMBDA col : ~has_column(df, col))
    IN  IF all = <<>> THEN <<>> ELSE <<all[1]>>

\* line 95
missing_cols(df) == SelectSeq(required_cols, LAMBDA col : ~has_column(df, col))

\* pd.to_numeric(..., errors='coerce') on one cell
to_numeric_coerce(c) ==
    IF c.t = "str"
    THEN IF c.s \in DOMAIN NumText THEN Num(NumText[c.s]) ELSE NaN
    ELSE c

\* line 101
notna_day(rows) == SelectSeq(rows, LAMBDA r : ~isna(to_numeric_coerce(r["Day"])))

\* line 102: pd.to_numeric on the rows line 101 kept, which all parse
numeric_day(rows) ==
    [k \in DOMAIN rows |-> [rows[k] EXCEPT !["Day"] = to_numeric_coerce(rows[k]["Day"])]]

\* line 103 with > for >=
day_gt_1(rows) == SelectSeq(rows, LAMBDA r : r["Day"].v > 1)

\* line 103: df[df['Day'] >= 1]
day_ge_1(rows) == SelectSeq(rows, LAMBDA r : r["Day"].v >= 1)

Orderings(n) ==
    {p \in [1..n -> 1..n] : \A a, b \in 1..n : a # b => p[a] # p[b]}

\* line 103 without the sort
unsorted(rows) == {rows}

\* line 103: sort_values('Day').reset_index(drop=True). The default kind,
\* quicksort, is not a stable sort: the order it gives rows of equal Day is
\* not specified, so every order is taken as one a build can produce.
sort_values(rows) ==
    {[k \in DOMAIN rows |-> rows[p[k]]] : p \in
        {q \in Orderings(Len(rows)) :
            \A a, b \in DOMAIN rows :
                a < b => rows[q[a]]["Day"].v <= rows[q[b]]["Day"].v}}

\* The sort is a function all the same: rows it has sorted once come out the
\* same way when it sorts them again.
sort_again(memo, rows) ==
    IF rows \in DOMAIN memo THEN {memo[rows]} ELSE sort_values(rows)

\* a - b on floats
sub(a, b) == IF isna(a) \/ isna(b) THEN NaN ELSE Num(a.v - b.v)

\* .clip(lower=0) on one cell: NaN stays NaN
clip(c, low) == IF isna(c) THEN NaN ELSE Num(IF c.v < low THEN low ELSE c.v)

\* line 106 raises TypeError when an operand is a string
duration_raises(rows) ==
    \E k \in DOMAIN rows :
        rows[k]["H2_Stop_Hour"].t = "str" \/ rows[k]["H2_Start_Hour"].t = "str"

\* line 106
with_duration(rows) ==
    [k \in DOMAIN rows |->
        rows[k] @@ ("H2_Duration" :>
            clip(sub(rows[k]["H2_Stop_Hour"], rows[k]["H2_Start_Hour"]), 0))]

\* line 107: a string is neither == 0 nor NaN
zero_mask(r) ==
    (r["H2_Produced_kg"].t = "num" /\ r["H2_Produced_kg"].v = 0)
        \/ isna(r["H2_Produced_kg"])

\* line 108
apply_zero_mask(rows) ==
    [k \in DOMAIN rows |->
        IF zero_mask(rows[k])
        THEN [rows[k] EXCEPT !["H2_Duration"] = Num(0),
                             !["H2_Start_Hour"] = Num(0),
                             !["H2_Stop_Hour"] = Num(0)]
        ELSE rows[k]]

\* a + b: floats add, two strings concatenate, a string and a float raise
add(a, b) ==
    IF a.t = "str" /\ b.t = "str" THEN Str(a.s \o b.s)
    ELSE IF isna(a) \/ isna(b) THEN NaN
    ELSE Num(a.v + b.v)

energy_raises(rows) ==
    \E k \in DOMAIN rows :
        (rows[k]["PV_to_H2_kWh"].t = "str") # (rows[k]["Batt_to_H2_kWh"].t = "str")

\* line 110
with_energy(rows) ==
    [k \in DOMAIN rows |->
        rows[k] @@ ("H2_Energy_Total_kWh" :>
            add(rows[k]["PV_to_H2_kWh"], rows[k]["Batt_to_H2_kWh"]))]

-----------------------------------------------------------------------------
(* The body of the load loop, lines 75-115 *)

Empty == [m \in {} |-> <<>>]

Shown(level, kind, file, cols) ==
    [level |-> level, kind |-> kind, file |-> file, cols |-> cols]

Outcome(data, shown, memo) == [data |-> data, shown |-> shown, memo |-> memo]

\* line 112 moved up, ahead of the derived columns: an exception would leave
\* the rows stored as they were when it was raised
except_keeps_partial(amd, month, rows) == (month :> rows) @@ amd

\* lines 114-115: an exception leaves the try block before line 112 has run
except_clause(amd, month, rows) == amd

\* lines 100-112 on the rows of a frame that has every required column
clean_and_store(file, month, rows, amd, memo) ==
    LET kept == day_ge_1(numeric_day(notna_day(rows)))
    IN  {LET sorts == (kept :> sorted) @@ memo
         IN  IF duration_raises(sorted)
                THEN Outcome(except_clause(amd, month, sorted),
                             <<Shown("error", "TypeError", file, <<>>)>>, sorts)
             ELSE IF energy_raises(sorted)
                THEN Outcome(except_clause(amd, month,
                                           apply_zero_mask(with_duration(sorted))),
                             <<Shown("error", "TypeError", file, <<>>)>>, sorts)
             ELSE Outcome((month :> with_energy(apply_zero_mask(with_duration(sorted))))
                              @@ amd,
                          <<>>, sorts)
         : sorted \in sort_again(memo, kept)}

\* One pass of the for loop of line 74 over `file`, whose text is `text`:
\* every all_months_data and messages it can end with.
loop_body(file, text, amd, memo) ==
    IF read_csv_raises(text)
    THEN {Outcome(amd, <<Shown("error", "EmptyDataError", file, <<>>)>>, memo)}
    ELSE LET df == strip_columns(read_csv(text))
             detected_month == detect_month(file)
             missing == missing_cols(df)
         IN  IF detected_month = None
             THEN {Outcome(amd, <<Shown("warning", "no_month", file, <<>>)>>, memo)}
             ELSE IF missing # <<>>
             THEN {Outcome(amd, <<Shown("warning", "missing_columns", file, missing)>>,
                           memo)}
             ELSE clean_and_store(file, detected_month, df.rows, amd, memo)

-----------------------------------------------------------------------------
(* The folders and files the runs are checked on *)

may_file == <<"solar", "h2", "may", "2023", "detailed", ".csv">>
may_backup == <<"May", "backup", ".CSV">>
june_file == <<"solar", "h2", "june", "2023", "detailed", ".csv">>
data_file == <<"data", ".csv">>
notes_file == <<"notes", ".txt">>
may_to_march == <<"may", "to", "march", ".csv">>

Folders ==
    {{}, {notes_file}, {may_file}, {data_file}, {may_to_march, notes_file},
     {may_file, june_file}, {may_file, may_backup}}

HFull == [j \in DOMAIN required_cols |-> Label(required_cols[j])]

HPadded ==
    <<Padded(1, "Day", 0), Label("PV_Total_MWh"), Label("PV_to_H2_kWh"),
      Label("Batt_to_H2_kWh"), Label("H2_Start_Hour"), Label("H2_Stop_Hour"),
      Label("H2_Produced_kg"), Padded(0, "Final_SOC_pct", 2),
      Label("Battery_Cycles_Daily"), Label("Notes")>>

HNoDayNoSoc == SelectSeq(HFull, LAMBDA l : l.word \notin {"Day", "Final_SOC_pct"})

\* The header lines of the files; a file with no header line is empty.
Headers ==
    [full |-> HFull, padded |-> HPadded, no_day_no_soc |-> HNoDayNoSoc, none |-> <<>>]

Line(day, start, stop, kg, pv, batt, mwh, soc) ==
    [Day |-> day, PV_Total_MWh |-> mwh, PV_to_H2_kWh |-> pv, Batt_to_H2_kWh |-> batt,
     H2_Start_Hour |-> start, H2_Stop_Hour |-> stop, H2_Produced_kg |-> kg,
     Final_SOC_pct |-> soc, Battery_Cycles_Daily |-> "1", Notes |-> "ok"]

\* The data lines of the files.
Lines ==
    <<Line("1", "6", "14", "50", "100", "20", "3", "80"),
     Line("2", "5", "9", "0", "0", "0", "2", "20"),
     Line("1", "14", "6", "50", "100", "20", "5", "80"),
     Line("abc", "6", "14", "50", "100", "20", "3", "80"),
     Line("0", "6", "14", "50", "100", "20", "3", "80"),
     Line("2", "", "14", "50", "100", "20", "6", "80"),
     Line("3", "5", "14h", "50", "100", "20", "3", "80"),
     Line("3", "5", "9", "", "0", "", "9", "20")>>

\* The text of a file
text_of(entry) ==
    [header |-> Headers[entry.header],
     lines |-> [k \in DOMAIN entry.lines |-> Lines[entry.lines[k]]]]

CsvOf(S) == {f \in S : IsCsv(f)}

\* The lines of `all` that belong to file f, in their order.
OwnedLines(all, owner, f) ==
    LET idx == SelectSeq([j \in DOMAIN all |-> j], LAMBDA j : owner[j] = f)
    IN  [m \in DOMAIN idx |-> all[idx[m]]]

\* The folder is one of Folders, and its CSV files hold at most MaxRows data
\* lines between them; a file with no header line holds no data line.
FolderOnDisk ==
    /\ folder \in Folders
    /\ \E k \in 0..MaxRows :
          \E all \in [1..k -> DOMAIN Lines], owner \in [1..k -> CsvOf(folder)],
             heads \in [CsvOf(folder) -> DOMAIN Headers] :
              /\ \A j \in 1..k : heads[owner[j]] # "none"
              /\ disk = [f \in CsvOf(folder) |->
                            [header |-> heads[f], lines |-> OwnedLines(all, owner, f)]]

-----------------------------------------------------------------------------
(* The load section of the script, lines 63-144, entered with no global    *)
(* bound and no widget created: the section as it runs when nothing before *)
(* it ends the run. (A run from line 1 ends at line 41; see Spec.)         *)

NoMetrics == [total_h2 |-> 0, days_at_min_soc |-> 0, zero_h2_days |-> 0]

LoaderInit ==
    /\ FolderOnDisk
    /\ pc = "listdir"
    /\ bound = {}
    /\ csv_files = <<>>
    /\ i = 1
    /\ all_months_data = Empty
    /\ reports = <<>>
    /\ widgets = {}
    /\ selected_month = None
    /\ current_data = <<>>
    /\ metrics = NoMetrics
    /\ error = "none"
    /\ run = 1
    /\ session = None
    /\ quicksort = Empty
    /\ previous = Empty

\* The orders os.listdir can return the names of S in.
Listings(S) ==
    {l \in [1..Cardinality(S) -> S] : \A a, b \in DOMAIN l : a # b => l[a] # l[b]}

\* lines 66-72
ListCsvFiles ==
    /\ pc = "listdir"
    /\ \E listing \in Listings(folder) :
          LET found == SelectSeq(listing, IsCsv)
          IN  /\ csv_files' = found
              /\ IF found = <<>>
                 THEN /\ reports' = Append(reports, Shown("warning", "no_csv", <<>>, <<>>))
                      /\ pc' = "stopped"
                      /\ UNCHANGED <<bound, all_months_data>>
                 ELSE /\ all_months_data' = Empty
                      /\ bound' = bound \cup {"all_months_data"}
                      /\ pc' = "loop"
                      /\ UNCHANGED reports
    /\ i' = 1
    /\ UNCHANGED <<folder, disk, widgets, selected_month, current_data, metrics,
                   error, run, session, quicksort, previous>>

\* lines 74-115, one file
LoadFile ==
    /\ pc = "loop"
    /\ i <= Len(csv_files)
    /\ \E out \in loop_body(csv_files[i], text_of(disk[csv_files[i]]),
                             all_months_data, quicksort) :
          /\ all_months_data' = out.data
          /\ reports' = reports \o out.shown
          /\ quicksort' = out.memo
    /\ i' = i + 1
    /\ pc' = IF i = Len(csv_files) THEN "guard" ELSE "loop"
    /\ UNCHANGED <<folder, disk, bound, csv_files, widgets, selected_month,
                   current_data, metrics, error, run, session, previous>>

\* lines 120-122
HandleNoData ==
    /\ pc = "guard"
    /\ IF DOMAIN all_months_data = {}
       THEN /\ reports' = Append(reports, Shown("info", "no_valid_data", <<>>, <<>>))
            /\ pc' = "stopped"
       ELSE /\ pc' = "selector"
            /\ UNCHANGED reports
    /\ UNCHANGED <<folder, disk, bound, csv_files, i, all_months_data, widgets,
                   selected_month, current_data, metrics, error, run, session,
                   quicksort, previous>>

\* sorted(all_months_data.keys(), key=lambda x: MONTHS.index(x))
sorted_months(amd) == SelectSeq(MONTHS, LAMBDA m : m \in DOMAIN amd)

\* lines 41-49 and again lines 127-135: the month selector and current_data.
\* Reading a name that is not bound raises NameError; a second widget with
\* the key of an earlier one raises DuplicateWidgetID.
SelectMonth(next) ==
    LET available_months == sorted_months(all_months_data)
        choice == IF session \in Range(available_months) THEN session
                  ELSE available_months[1]
    IN  IF "all_months_data" \notin bound
        THEN /\ error' = "NameError"
             /\ pc' = "crashed"
             /\ UNCHANGED <<widgets, selected_month, current_data>>
        ELSE IF "month_selector" \in widgets
        THEN /\ error' = "DuplicateWidgetID"
             /\ pc' = "crashed"
             /\ UNCHANGED <<widgets, selected_month, current_data>>
        ELSE IF available_months = <<>>
        THEN /\ error' = "KeyError"
             /\ pc' = "crashed"
             /\ widgets' = widgets \cup {"month_selector"}
             /\ UNCHANGED <<selected_month, current_data>>
        ELSE /\ widgets' = widgets \cup {"month_selector"}
             /\ selected_month' = choice
             /\ current_data' = all_months_data[choice]
             /\ pc' = next
             /\ UNCHANGED error

\* lines 127-136
MonthSelector ==
    /\ pc = "selector"
    /\ SelectMonth("metrics")
    /\ UNCHANGED <<folder, disk, bound, csv_files, i, all_months_data, reports,
                   metrics, run, session, quicksort, previous>>

RECURSIVE sum_kg(_)
\* .sum() skips NaN
sum_kg(rows) ==
    IF rows = <<>> THEN 0
    ELSE (IF Head(rows)["H2_Produced_kg"].t = "num"
          THEN Head(rows)["H2_Produced_kg"].v ELSE 0) + sum_kg(Tail(rows))

\* line 143: Final_SOC_pct <= 20.5, on whole percents
at_min_soc(r) == r["Final_SOC_pct"].t = "num" /\ 2 * r["Final_SOC_pct"].v <= 41

\* lines 141-144. A frame built from an empty list has no columns, and
\* current_data['H2_Produced_kg'] raises KeyError.
SummaryMetrics ==
    /\ pc = "metrics"
    /\ IF current_data = <<>>
       THEN /\ error' = "KeyError"
            /\ pc' = "crashed"
            /\ UNCHANGED metrics
       ELSE /\ metrics' =
                [total_h2 |-> sum_kg(current_data),
                 days_at_min_soc |->
                    Cardinality({k \in DOMAIN current_data : at_min_soc(current_data[k])}),
                 zero_h2_days |->
                    Cardinality({k \in DOMAIN current_data :
                        /\ current_data[k]["H2_Produced_kg"].t = "num"
                        /\ current_data[k]["H2_Produced_kg"].v = 0})]
            /\ pc' = "done"
            /\ UNCHANGED error
    /\ UNCHANGED <<folder, disk, bound, csv_files, i, all_months_data, reports,
                   widgets, selected_month, current_data, run, session, quicksort,
                   previous>>

LoaderNext ==
    \/ ListCsvFiles
    \/ LoadFile
    \/ HandleNoData
    \/ MonthSelector
    \/ SummaryMetrics

LoaderSpec == LoaderInit /\ [][LoaderNext]_vars

-----------------------------------------------------------------------------
(* The load section run again on the same folder *)

Finished == pc \in {"stopped", "crashed", "done"}

\* Streamlit runs the script again, with fresh globals, when the user picks
\* a month or reloads the page; the files are as they were.
Rerun ==
    /\ Finished
    /\ run = 1
    /\ run' = 2
    /\ previous' = all_months_data
    /\ session' \in (IF "month_selector" \in widgets
                     THEN DOMAIN all_months_data ELSE {None})
    /\ pc' = "listdir"
    /\ bound' = {}
    /\ csv_files' = <<>>
    /\ i' = 1
    /\ all_months_data' = Empty
    /\ reports' = <<>>
    /\ widgets' = {}
    /\ selected_month' = None
    /\ current_data' = <<>>
    /\ metrics' = NoMetrics
    /\ error' = "none"
    /\ UNCHANGED <<folder, disk, quicksort>>

RerunNext == LoaderNext \/ Rerun

RerunSpec == LoaderInit /\ [][RerunNext]_vars

-----------------------------------------------------------------------------
(* The script from its first line *)

Init ==
    /\ FolderOnDisk
    /\ pc = "start"
    /\ bound = {}
    /\ csv_files = <<>>
    /\ i = 1
    /\ all_months_data = Empty
    /\ reports = <<>>
    /\ widgets = {}
    /\ selected_month = None
    /\ current_data = <<>>
    /\ metrics = NoMetrics
    /\ error = "none"
    /\ run = 1
    /\ session = None
    /\ quicksort = Empty
    /\ previous = Empty

\* lines 10-36: page configuration, constants, title
PageHeader ==
    /\ pc = "start"
    /\ pc' = "top_selector"
    /\ bound' = bound \cup {"SYSTEM_INFO", "MONTHS"}
    /\ UNCHANGED <<folder, disk, csv_files, i, all_months_data, reports, widgets,
                   selected_month, current_data, metrics, error, run, session,
                   quicksort, previous>>

\* lines 39-50
TopSelector ==
    /\ pc = "top_selector"
    /\ SelectMonth("listdir")
    /\ UNCHANGED <<folder, disk, bound, csv_files, i, all_months_data, reports,
                   metrics, run, session, quicksort, previous>>

\* An uncaught exception ends the run, so the steps of a run from line 1 are
\* these two (NeverPastLine41 below checks it against every step of the script).
Next == PageHeader \/ TopSelector

Spec == Init /\ [][Next]_vars

WholeScript == Init /\ [][Next \/ LoaderNext]_vars

NeverPastLine41 == pc \in {"start", "top_selector", "crashed"}

-----------------------------------------------------------------------------
(* Properties *)

Text(file) == text_of(disk[file])

\* A step of the load loop over `file`: LoadFile is the only step taken at "loop".
Loading == pc = "loop" /\ i <= Len(csv_files) /\ i' = i + 1

\* Every path of the loop body that stores nothing shows one message.
Stores == Loading /\ reports' = reports

Fails ==
    /\ Loading
    /\ Len(reports') = Len(reports) + 1
    /\ reports'[Len(reports')].file = csv_files[i]
    /\ reports'[Len(reports')].level \in {"warning", "error"}

\* The required columns a text has no column for, blanks around labels aside.
AbsentCols(text) == {col \in Range(required_cols) : col \notin Words(text.header)}

\* The data lines of a text whose Day is a number of at least 1.
KeptLines(text) ==
    {k \in DOMAIN text.lines :
        /\ text.lines[k]["Day"] \in DOMAIN NumText
        /\ NumText[text.lines[k]["Day"]] >= 1}

\* The stored record `rec` is line k of the text: the same Day, and every
\* column the loader does not write to as read_csv read it.
SameRow(rec, text, k) ==
    /\ rec["Day"] = Num(NumText[text.lines[k]["Day"]])
    /\ \A w \in Words(text.header) \ {"Day", "H2_Start_Hour", "H2_Stop_Hour"} :
          rec[w] = read_csv(text).rows[k][w]

Bijections(S, T) ==
    {p \in [S -> T] : /\ \A a, b \in S : a # b => p[a] # p[b]
                      /\ \A t \in T : \E a \in S : p[a] = t}

\* Every record of every stored dataset.
StoredRecords == UNION {Range(all_months_data[m]) : m \in DOMAIN all_months_data}

IsZeroOrMissing(c) == isna(c) \/ (c.t = "num" /\ c.v = 0)

\* The step shows the missing-columns warning for its file, with exactly the
\* required columns the file lacks, and stores nothing.
ListsAbsentCols ==
    /\ Fails
    /\ reports'[Len(reports')].kind = "missing_columns"
    /\ Range(reports'[Len(reports')].cols) = AbsentCols(Text(csv_files[i]))
    /\ Len(reports'[Len(reports')].cols) = Cardinality(AbsentCols(Text(csv_files[i])))
    /\ all_months_data' = all_months_data

\* The step shows no missing-columns warning.
NoMissingWarning ==
    \A k \in DOMAIN reports' : k > Len(reports) => reports'[k].kind # "missing_columns"

\* C1, as stated: whenever the load loop takes a file that has a header line
\* and lacks a required column, blanks around the column names aside, it
\* reports the missing columns, all of them, and stores nothing; a file that
\* lacks none is not reported so.
C1_MissingColumnsAlwaysListed ==
    [][(Loading /\ ~read_csv_raises(Text(csv_files[i]))) =>
          IF AbsentCols(Text(csv_files[i])) # {} THEN ListsAbsentCols
          ELSE NoMissingWarning]_vars

\* C1, amended: whenever the load loop takes a file that has a header line
\* and whose name holds a month name, then if the file lacks a required
\* column, blanks around the column names aside, it shows the missing-columns
\* warning for that file, listing every absent required column and no other,
\* and stores nothing; and no file that lacks none is reported so.
C1_MissingColumnsListed ==
    [][(Loading /\ ~read_csv_raises(Text(csv_files[i]))) =>
          IF AbsentCols(Text(csv_files[i])) # {}
          THEN (\E m \in DOMAIN MONTHS :
                    lower(MONTHS[m]) \in Range(lower_name(csv_files[i])))
                  => ListsAbsentCols
          ELSE NoMissingWarning]_vars

\* A file without Day and Final_SOC_pct has been reported with both columns.
C1_Witness ==
    \E k \in DOMAIN reports :
        /\ reports[k].kind = "missing_columns"
        /\ Range(reports[k].cols) = {"Day", "Final_SOC_pct"}
        /\ reports[k].file \notin
              {f \in DOMAIN disk : detect_month(f) \in DOMAIN all_months_data}

\* C2: whenever the load loop takes a file with every required column, a
\* month in its name and data lines none of which has a Day that is a number
\* of at least 1, it reports an error and stores nothing, not even an empty
\* dataset.
C2_EmptyDatasetIsAnError ==
    [][(/\ Loading
        /\ Text(csv_files[i]).lines # <<>>
        /\ detect_month(csv_files[i]) # None
        /\ AbsentCols(Text(csv_files[i])) = {}
        /\ KeptLines(Text(csv_files[i])) = {}) =>
          /\ Fails
          /\ all_months_data' = all_months_data
          /\ \A m \in DOMAIN all_months_data' : all_months_data'[m] # <<>>]_vars

\* The table is normalized: every record has a numeric Day of at least 1, the
\* records are in order of Day, each has its duration and its total energy,
\* and the zero-production rule has set the duration to 0.
Normalized(table) ==
    /\ \A k \in DOMAIN table :
          /\ {"H2_Duration", "H2_Energy_Total_kWh"} \subseteq DOMAIN table[k]
          /\ table[k]["Day"].t = "num" /\ table[k]["Day"].v >= 1
          /\ IsZeroOrMissing(table[k]["H2_Produced_kg"]) =>
                table[k]["H2_Duration"] = Num(0)
          /\ LET pv == table[k]["PV_to_H2_kWh"]
                 batt == table[k]["Batt_to_H2_kWh"]
             IN  table[k]["H2_Energy_Total_kWh"] =
                    IF pv.t = "num" /\ batt.t = "num" THEN Num(pv.v + batt.v) ELSE NaN
    /\ \A a, b \in DOMAIN table : a < b => table[a]["Day"].v <= table[b]["Day"].v

\* C3: every step of the load loop either stores the normalized table of its
\* file, whole, under the file's month, showing nothing, or shows a warning
\* or an error for the file and leaves all_months_data as it was; either way
\* the datasets of the other months stay as they were.
C3_AllOrNothing ==
    [][Loading =>
          LET file == csv_files[i]
              month == detect_month(file)
          IN  /\ \/ /\ Stores
                    /\ month \in DOMAIN all_months_data'
                    /\ Normalized(all_months_data'[month])
                    /\ Len(all_months_data'[month]) = Cardinality(KeptLines(Text(file)))
                    /\ DOMAIN all_months_data' = DOMAIN all_months_data \cup {month}
                 \/ /\ Fails
                    /\ all_months_data' = all_months_data
              /\ \A m \in DOMAIN all_months_data :
                    m # month => /\ m \in DOMAIN all_months_data'
                                 /\ all_months_data'[m] = all_months_data[m]]_vars

\* The loop is over; one file's dataset is stored with its records, and the
\* other file raised in the middle of the derived columns.
C3_Witness ==
    /\ pc = "guard"
    /\ \E k \in DOMAIN reports : reports[k].kind = "TypeError"
    /\ \E m \in DOMAIN all_months_data : Len(all_months_data[m]) >= 1

\* C4: every stored record with no production (zero, or missing) has a
\* duration of 0 and neither a start hour nor a stop hour.
C4_NoProductionNoWindow ==
    \A r \in StoredRecords :
        IsZeroOrMissing(r["H2_Produced_kg"]) =>
            /\ r["H2_Duration"] = Num(0)
            /\ isna(r["H2_Start_Hour"])
            /\ isna(r["H2_Stop_Hour"])

\* C5: every stored record has a duration that is a number of at least 0.
C5_DurationNotNegative ==
    \A r \in StoredRecords : r["H2_Duration"].t = "num" /\ r["H2_Duration"].v >= 0

\* C6: the records of every stored dataset are in non-decreasing order of Day.
C6_SortedByDay ==
    \A m \in DOMAIN all_months_data :
        \A a, b \in DOMAIN all_months_data[m] :
            a < b => /\ all_months_data[m][a]["Day"].t = "num"
                     /\ all_months_data[m][b]["Day"].t = "num"
                     /\ all_months_data[m][a]["Day"].v <= all_months_data[m][b]["Day"].v

\* The only file of a month has Day 2 before Day 1, and both are stored.
C6_Witness ==
    \E f \in DOMAIN disk :
        /\ \A g \in DOMAIN disk : detect_month(g) = detect_month(f) => g = f
        /\ Len(Text(f).lines) = 2
        /\ Text(f).lines[1]["Day"] = "2"
        /\ Text(f).lines[2]["Day"] = "1"
        /\ detect_month(f) \in DOMAIN all_months_data
        /\ Len(all_months_data[detect_month(f)]) = 2

\* C7: whenever the load loop stores a file's dataset, records of equal Day
\* are in the order of their lines in the file.
C7_TiesKeepInputOrder ==
    [][Stores =>
          LET text == Text(csv_files[i])
              out == all_months_data'[detect_month(csv_files[i])]
          IN  \E p \in Bijections(DOMAIN out, KeptLines(text)) :
                  /\ \A k \in DOMAIN out : SameRow(out[k], text, p[k])
                  /\ \A a, b \in DOMAIN out :
                        (a < b /\ out[a]["Day"] = out[b]["Day"]) => p[a] < p[b]]_vars

\* C8: whenever the load loop stores a file's dataset, its records are the
\* lines of the file whose Day is a number of at least 1, each once, and no
\* other.
C8_KeepsExactlyTheValidDays ==
    [][Stores =>
          LET text == Text(csv_files[i])
              out == all_months_data'[detect_month(csv_files[i])]
          IN  \E p \in Bijections(DOMAIN out, KeptLines(text)) :
                  \A k \in DOMAIN out : SameRow(out[k], text, p[k])]_vars

\* The only file of a month has a line whose Day is no number or is below 1
\* and a line whose Day is 1, and the dataset stored for it has one record.
C8_Witness ==
    \E f \in DOMAIN disk :
        /\ \A g \in DOMAIN disk : detect_month(g) = detect_month(f) => g = f
        /\ Len(Text(f).lines) = 2
        /\ Text(f).lines[1]["Day"] \in {"abc", "0"}
        /\ Text(f).lines[2]["Day"] = "1"
        /\ detect_month(f) \in DOMAIN all_months_data
        /\ Len(all_months_data[detect_month(f)]) = 1

\* C9: once the second run on the same folder has finished loading, its
\* all_months_data is the one the first run ended with.
C9_RerunSameOutput ==
    (run = 2 /\ pc \notin {"listdir", "loop"}) => all_months_data = previous

\* C10: whenever a month selector runs, all_months_data is bound, the load
\* loop has run to its end, and no selector with the same key has been
\* created in this run.
C10_SelectorAfterLoad ==
    [][(pc \in {"top_selector", "selector"} /\ pc' # pc) =>
          /\ "all_months_data" \in bound
          /\ i > Len(csv_files)
          /\ "month_selector" \notin widgets
          /\ error' = "none"]_vars

====
